---- MODULE Spec2Model ----
(***************************************************************************)
(* Mountain Trip Risk Checker (src/app.py): the rule-based evaluator       *)
(* analyze_risk, the elevation adapter fetch_elevation and the handler of  *)
(* the "Check risk now" button.                                            *)
(*                                                                         *)
(* Encodings.                                                              *)
(*  - A Python str is a sequence of one-character strings, so that         *)
(*    lower(), strip() and the `in` substring test are computed.           *)
(*  - An optional value (None, or a dict key that may be absent) is a      *)
(*    sequence of length 0 or 1: <<>> is None / key absent, <<v>> is v.    *)
(*  - A dict is a record whose fields are such optionals.                  *)
(*  - Measured quantities (mm, m/s, deg C) are integers in hundredths of   *)
(*    the unit: 0.1 mm is 10, 10.0 m/s is 1000, 4.5 deg C is 450.          *)
(*  - risk_score is kept in half points (the code adds 1.5 * weight): the  *)
(*    code's 6 is 12 and its 2.5 is 5. All values involved are exact in    *)
(*    binary floating point, so no rounding is lost.                       *)
(***************************************************************************)
EXTENDS Integers, Sequences, FiniteSets, TLC

VARIABLES
    OPENWEATHER_API_KEY,  \* module constant read from the environment
    use_demo, api_key_input, loc_mode, city, lat, lon, auto_elev, force_mountain,
    pc,                   \* position of the handler
    api_key,              \* the credential the handler resolved
    weather_json,         \* optional: the weather payload obtained
    elev_resp,            \* optional: what the elevation provider answered
    elev,                 \* optional: what fetch_elevation returned to the handler
    elevation,            \* optional: the handler's elevation
    is_mountainous,       \* the flag handed to analyze_risk
    result,               \* optional: what analyze_risk returned
    calls,                \* network calls of the current action, in order
    errors,               \* st.error messages of the current action
    evalCount,            \* invocations of analyze_risk in the current action
    failed                \* calls of the current action that raised

vars == <<OPENWEATHER_API_KEY, use_demo, api_key_input, loc_mode, city, lat, lon,
          auto_elev, force_mountain, pc, api_key, weather_json, elev_resp, elev,
          elevation,
          is_mountainous, result, calls, errors, evalCount, failed>>

uiVars == <<use_demo, api_key_input, loc_mode, city, lat, lon, auto_elev, force_mountain>>

-----------------------------------------------------------------------------
(* Optional values and dict access *)

None == <<>>

Some(v) == <<v>>

\* `k in d`
Has(d, k) == d[k] # None

\* d.get(k, default)
Get(d, k, default) == IF Has(d, k) THEN d[k][1] ELSE default

\* d.get(k): None when the key is absent
GetOpt(d, k) == d[k]

-----------------------------------------------------------------------------
(* Strings *)

UpperToLower ==
    [A |-> "a", B |-> "b", C |-> "c", D |-> "d", E |-> "e", F |-> "f", G |-> "g",
     H |-> "h", I |-> "i", J |-> "j", K |-> "k", L |-> "l", M |-> "m", N |-> "n",
     O |-> "o", P |-> "p", Q |-> "q", R |-> "r", S |-> "s", T |-> "t", U |-> "u",
     V |-> "v", W |-> "w", X |-> "x", Y |-> "y", Z |-> "z"]

\* str.lower()
Lower(s) == [i \in 1..Len(s) |-> IF s[i] \in DOMAIN UpperToLower THEN UpperToLower[s[i]] ELSE s[i]]

\* `sub in s`
Contains(sub, s) ==
    \E i \in 1..(Len(s) - Len(sub) + 1) : SubSeq(s, i, i + Len(sub) - 1) = sub

RECURSIVE LStrip(_)
LStrip(s) == IF s # <<>> /\ Head(s) = " " THEN LStrip(Tail(s)) ELSE s

RECURSIVE RStrip(_)
RStrip(s) == IF s # <<>> /\ s[Len(s)] = " " THEN RStrip(SubSeq(s, 1, Len(s) - 1)) ELSE s

\* str.strip()
Strip(s) == RStrip(LStrip(s))

s_rain == <<"r", "a", "i", "n">>
s_snow == <<"s", "n", "o", "w">>
s_shower == <<"s", "h", "o", "w", "e", "r">>
s_thunder == <<"t", "h", "u", "n", "d", "e", "r">>
s_storm == <<"s", "t", "o", "r", "m">>
s_clear == <<"c", "l", "e", "a", "r">>

-----------------------------------------------------------------------------
(* Config / thresholds *)

ELEVATION_MOUNTAIN_THRESHOLD == 1000

\* 10.0 m/s, in hundredths
WIND_STRONG_THRESHOLD == 1000

\* 0.1 mm, in hundredths
PRECIP_THRESHOLD_MM == 10

-----------------------------------------------------------------------------
(* analyze_risk *)

weather_main(w) ==
    IF Has(w, "weather") /\ Len(w.weather[1]) > 0
    THEN Lower(Get(w.weather[1][1], "main", <<>>))
    ELSE <<>>

weather_desc(w) ==
    IF Has(w, "weather") /\ Len(w.weather[1]) > 0
    THEN Lower(Get(w.weather[1][1], "description", <<>>))
    ELSE <<>>

\* the {} of .get("main", {}): a "main" section without its key
EmptyMain == [temp |-> None]

\* variant: the temperature defaults to 0 like the other numeric fields
temp_c_defaulted(w) == Some(Get(Get(w, "main", EmptyMain), "temp", 0))

\* an optional: None when the section or the key is absent
temp_c(w) == GetOpt(Get(w, "main", EmptyMain), "temp")

\* the {} of .get("wind", {})
EmptyWind == [speed |-> None]

wind_speed(w) == Get(Get(w, "wind", EmptyWind), "speed", 0)

\* the field h1 is the key "1h"
rain_1h(w) == IF Has(w, "rain") THEN Get(w.rain[1], "h1", 0) ELSE 0

snow_1h(w) == IF Has(w, "snow") THEN Get(w.snow[1], "h1", 0) ELSE 0

has_rain(w) ==
    \/ Contains(s_rain, weather_main(w))
    \/ rain_1h(w) >= PRECIP_THRESHOLD_MM
    \/ Contains(s_shower, weather_desc(w))

has_snow(w) == Contains(s_snow, weather_main(w)) \/ snow_1h(w) >= PRECIP_THRESHOLD_MM

is_windy(w) == wind_speed(w) >= WIND_STRONG_THRESHOLD

is_cold(w) == temp_c(w) # None /\ temp_c(w)[1] <= 0

\* the test of line 146
is_stormy(w) == Contains(s_thunder, weather_desc(w)) \/ Contains(s_storm, weather_desc(w))

\* variant: the category is not compared with "clear"
is_clear_any_category(w) == ~(has_rain(w) \/ has_snow(w) \/ is_windy(w) \/ is_cold(w))

\* the test of line 149
is_clear(w) ==
    weather_main(w) = s_clear /\ ~(has_rain(w) \/ has_snow(w) \/ is_windy(w) \/ is_cold(w))

\* 2.0 or 1.0
risk_weight(m) == IF m THEN 2 ELSE 1

\* variant: cold adds 1.0 * weight instead of 1.5 * weight
risk_score_cold_1(w, m) ==
    (IF has_rain(w) THEN 4 * risk_weight(m) ELSE 0)
        + (IF has_snow(w) THEN 6 * risk_weight(m) ELSE 0)
        + (IF is_windy(w) THEN 4 * risk_weight(m) ELSE 0)
        + (IF is_cold(w) THEN 2 * risk_weight(m) ELSE 0)
        + (IF is_stormy(w) THEN 6 * risk_weight(m) ELSE 0)

\* risk_score after line 148, in half points: the code's 2 is 4, 3 is 6, 1.5 is 3
risk_score(w, m) ==
    LET s0 == 0
        s1 == IF has_rain(w) THEN s0 + 4 * risk_weight(m) ELSE s0
        s2 == IF has_snow(w) THEN s1 + 6 * risk_weight(m) ELSE s1
        s3 == IF is_windy(w) THEN s2 + 4 * risk_weight(m) ELSE s2
        s4 == IF is_cold(w) THEN s3 + 3 * risk_weight(m) ELSE s3
        s5 == IF is_stormy(w) THEN s4 + 6 * risk_weight(m) ELSE s4
    IN  s5

Reason(kind, val) == [kind |-> kind, val |-> val]

\* reasons after line 150
hazard_reasons(w) ==
    LET r0 == <<>>
        r1 == IF has_rain(w) THEN Append(r0, Reason("rain", Some(rain_1h(w)))) ELSE r0
        r2 == IF has_snow(w) THEN Append(r1, Reason("snow", Some(snow_1h(w)))) ELSE r1
        r3 == IF is_windy(w) THEN Append(r2, Reason("wind", Some(wind_speed(w)))) ELSE r2
        r4 == IF is_cold(w) THEN Append(r3, Reason("cold", temp_c(w))) ELSE r3
        r5 == IF is_stormy(w) THEN Append(r4, Reason("storm", Some(weather_desc(w)))) ELSE r4
        r6 == IF is_clear(w) THEN Append(r5, Reason("clear", None)) ELSE r5
    IN  r6

\* variant: Medium starts at 3.5 instead of 2.5
base_level_medium_35(score) ==
    IF score >= 12 THEN <<"High">>
    ELSE IF score >= 7 THEN <<"Medium">>
    ELSE <<"Low">>

\* level after line 172: a str is kept as the sequence of the literals it is
\* concatenated from
base_level(score) ==
    IF score >= 12 THEN <<"High">>
    ELSE IF score >= 5 THEN <<"Medium">>
    ELSE <<"Low">>

\* the number of advice strings of each branch
advice(score) ==
    IF score >= 12 THEN <<"avoid travel", "postpone", "carry gear">>
    ELSE IF score >= 5 THEN <<"caution", "check forecasts", "bring layers">>
    ELSE <<"conditions ok", "bring sun protection">>

Suffix == " (mountain hazard less likely due to low elevation)"

\* variant: the suffix is added without testing is_mountainous
adjusted_level_always(level, m) ==
    IF level = <<"High">> THEN Append(level, Suffix) ELSE level

\* lines 175-179: level
adjusted_level(level, m) ==
    IF ~m /\ level = <<"High">> THEN Append(level, Suffix) ELSE level

\* variant: reasons.append(note) instead of reasons.insert(0, note)
adjusted_reasons_appended(reasons, m) ==
    IF ~m THEN Append(reasons, [kind |-> "not_mountainous", val |-> None]) ELSE reasons

\* lines 175-176: reasons.insert(0, note)
adjusted_reasons(reasons, m) ==
    IF ~m THEN <<Reason("not_mountainous", None)>> \o reasons ELSE reasons

raw_snapshot(w) ==
    [temp_c |-> temp_c(w),
     wind_speed |-> wind_speed(w),
     rain_1h |-> rain_1h(w),
     snow_1h |-> snow_1h(w),
     weather_main |-> weather_main(w),
     weather_desc |-> weather_desc(w)]

analyze_risk(w, m) ==
    [level |-> adjusted_level(base_level(risk_score(w, m)), m),
     reasons |-> adjusted_reasons(hazard_reasons(w), m),
     advice |-> advice(risk_score(w, m)),
     raw |-> raw_snapshot(w)]

-----------------------------------------------------------------------------
(* Provider payloads *)

Str_Clear == <<"C", "l", "e", "a", "r">>
Str_Clouds == <<"C", "l", "o", "u", "d", "s">>
Str_Rain == <<"R", "a", "i", "n">>
Str_Snow == <<"S", "n", "o", "w">>
Str_Thunderstorm == <<"T", "h", "u", "n", "d", "e", "r", "s", "t", "o", "r", "m">>
Str_clear_sky == <<"c", "l", "e", "a", "r", " ", "s", "k", "y">>
Str_few_clouds == <<"f", "e", "w", " ", "c", "l", "o", "u", "d", "s">>
Str_shower_rain == <<"s", "h", "o", "w", "e", "r", " ", "r", "a", "i", "n">>
Str_Light_Snow == <<"L", "i", "g", "h", "t", " ", "S", "n", "o", "w">>
Str_thunderstorm == <<"t", "h", "u", "n", "d", "e", "r", "s", "t", "o", "r", "m">>
Str_Dust_Storm == <<"D", "u", "s", "t", " ", "S", "t", "o", "r", "m">>

\* a key that may be absent, with its values drawn from Vals
Optional(Vals) == {None} \cup {Some(v) : v \in Vals}

MainValues == {Str_Clear, Str_Clouds, Str_Rain, Str_Snow, Str_Thunderstorm}

DescValues ==
    {Str_clear_sky, Str_few_clouds, Str_shower_rain, Str_Light_Snow, Str_thunderstorm,
     Str_Dust_Storm}

WeatherEntries == [main : Optional(MainValues), description : Optional(DescValues)]

\* "weather": absent, [] or a list of one entry
WeatherSections == {None, Some(<<>>)} \cup {Some(<<e>>) : e \in WeatherEntries}

\* hundredths of a degree: -5.0, 0.0, 0.01, 4.5
TempValues == {-500, 0, 1, 450}

\* hundredths of m/s: 3.2, 9.99, 10.0
WindValues == {320, 999, 1000}

\* hundredths of mm: 0.05, 0.1, 0.5
PrecipValues == {5, 10, 50}

\* every payload with any subset of the optional sections and keys absent
Payloads ==
    [weather : WeatherSections,
     main : Optional([temp : Optional(TempValues)]),
     wind : Optional([speed : Optional(WindValues)]),
     rain : Optional([h1 : Optional(PrecipValues)]),
     snow : Optional([h1 : Optional(PrecipValues)])]

\* the sample of lines 246-252
demo_weather ==
    [weather |-> Some(<<[main |-> Some(Str_Clear), description |-> Some(Str_clear_sky)]>>),
     main |-> Some([temp |-> Some(450)]),
     wind |-> Some([speed |-> Some(320)]),
     rain |-> Some([h1 |-> None]),
     snow |-> Some([h1 |-> None])]

-----------------------------------------------------------------------------
(* Provider adapters. A call's outcome is [raised, value]: raised is "" when *)
(* the call returned value, else the class of the exception it raised.      *)

Returned(v) == [raised |-> "", value |-> v]

Raised(e) == [raised |-> e, value |-> None]

\* what the weather provider may answer: an HTTP error status, a failure of
\* the transport or of the JSON decoding, or a payload
WeatherResponses(Ps) ==
    {[status |-> "http_error", json |-> None], [status |-> "error", json |-> None]}
        \cup {[status |-> "ok", json |-> Some(p)] : p \in Ps}

\* variant: failures are swallowed and None is returned, as fetch_elevation does
fetch_weather_by_coords_swallow(resp) ==
    IF resp.status = "ok" THEN Returned(resp.json) ELSE Returned(None)

fetch_weather_by_coords(resp) ==
    IF resp.status = "http_error" THEN Raised("HTTPError")
    ELSE IF resp.status = "error" THEN Raised("Exception")
    ELSE Returned(resp.json)

fetch_weather_by_city(resp) ==
    IF resp.status = "http_error" THEN Raised("HTTPError")
    ELSE IF resp.status = "error" THEN Raised("Exception")
    ELSE Returned(resp.json)

\* metres
ElevValues == {0, 999, 1000, 1001}

\* the decoded body: "results" absent, [] or one entry, with or without "elevation"
ElevData ==
    [results : Optional({<<>>} \cup {<<e>> : e \in [elevation : Optional(ElevValues)]})]

\* ok = FALSE: the request, the status check or the decoding raised
ElevationResponses ==
    {[ok |-> FALSE, data |-> [results |-> None]]} \cup {[ok |-> TRUE, data |-> d] : d \in ElevData}

\* variant: no try/except around the request
fetch_elevation_raising(resp) ==
    IF ~resp.ok THEN Raised("Exception")
    ELSE IF Has(resp.data, "results") /\ Len(resp.data.results[1]) > 0
    THEN Returned(GetOpt(resp.data.results[1][1], "elevation"))
    ELSE Returned(None)

fetch_elevation(resp) ==
    IF ~resp.ok THEN Returned(None)
    ELSE IF Has(resp.data, "results") /\ Len(resp.data.results[1]) > 0
    THEN Returned(GetOpt(resp.data.results[1][1], "elevation"))
    ELSE Returned(None)

-----------------------------------------------------------------------------
(* Inputs of the interactive surface *)

CityMode == "City name"

CoordMode == "Latitude & Longitude"

LocModes == {CityMode, CoordMode}

\* raw values of the environment variable, before line 36 strips them
EnvValues == {<<>>, <<" ">>, <<"e", " ">>}

KeyInputs == {<<>>, <<" ">>, <<" ", "k", " ">>}

CityInputs == {<<>>, <<"S", "k", "a", "r", "d", "u">>}

CoordInputs == {<<>>, <<" ">>, <<"a", "b", "c">>, <<"3", "5", ".", "2">>, <<"-", "7", "5">>}

\* lines 213-222: the location widgets of each mode; the other mode's are None
Locations ==
    {[mode |-> CityMode, city |-> Some(c), lat |-> None, lon |-> None] : c \in CityInputs}
        \cup {[mode |-> CoordMode, city |-> None, lat |-> Some(la), lon |-> Some(lo)] :
                 la \in CoordInputs, lo \in CoordInputs}

Digits == {"0", "1", "2", "3", "4", "5", "6", "7", "8", "9"}

\* float(s) does not raise ValueError. Decimal literals only: surrounding
\* blanks, an optional sign, digits with at most one point (no exponent, inf,
\* nan or underscore occurs in CoordInputs).
ParsesAsFloat(s) ==
    LET t == Strip(s)
        u == IF t # <<>> /\ Head(t) \in {"+", "-"} THEN Tail(t) ELSE t
    IN  /\ \A i \in 1..Len(u) : u[i] \in Digits \cup {"."}
        /\ Cardinality({i \in 1..Len(u) : u[i] = "."}) <= 1
        /\ \E i \in 1..Len(u) : u[i] \in Digits

\* `not s` for an optional str: None and "" are falsy
Falsy(s) == s = None \/ s[1] = <<>>

-----------------------------------------------------------------------------
(* The handler of "Check risk now" *)

\* line 242
resolve_api_key(input, env) == IF Strip(input) # <<>> THEN Strip(input) ELSE env

\* variant: coordinate mode does not test the credential before the call
validate_no_key_check(mode, c, la, lo, key) ==
    IF mode = CityMode
    THEN IF Falsy(c) \/ key = <<>> THEN "City name provided but no API key available." ELSE ""
    ELSE IF Falsy(la) \/ Falsy(lo) THEN "Please provide both latitude and longitude."
    ELSE IF ~ParsesAsFloat(la[1]) \/ ~ParsesAsFloat(lo[1])
    THEN "Latitude and Longitude must be numeric."
    ELSE ""

\* lines 258-279: the message of the st.error that precedes st.stop(), or ""
\* when the inputs pass and the weather call is made
validate(mode, c, la, lo, key) ==
    IF mode = CityMode
    THEN IF Falsy(c) \/ key = <<>> THEN "City name provided but no API key available." ELSE ""
    ELSE IF Falsy(la) \/ Falsy(lo) THEN "Please provide both latitude and longitude."
    ELSE IF ~ParsesAsFloat(la[1]) \/ ~ParsesAsFloat(lo[1])
    THEN "Latitude and Longitude must be numeric."
    ELSE IF key = <<>> THEN "No OpenWeatherMap API key available."
    ELSE ""

\* lines 324-327
except_message(e) ==
    IF e = "HTTPError" THEN "External API HTTP error" ELSE "An error occurred"

\* variant: strictly above the threshold, as the module docstring words it
mountainous_by_elevation_strict(e) ==
    IF e # None THEN e[1] > ELEVATION_MOUNTAIN_THRESHOLD ELSE FALSE

\* lines 287-292
mountainous_by_elevation(e) ==
    IF e # None THEN e[1] >= ELEVATION_MOUNTAIN_THRESHOLD ELSE FALSE

\* lines 295-296
override(m, force) == IF force THEN TRUE ELSE m

\* the button is pressed with the widgets in some state; the script runs up to
\* the demo data, an st.stop() or the weather call. st.stop() ends the script
\* run with a control exception that is no Exception subclass, so the except
\* clauses of lines 324-327 do not see it.
Click ==
    /\ pc \in {"idle", "done", "stopped"}
    /\ \E d \in BOOLEAN, k \in KeyInputs, loc \in Locations, a \in BOOLEAN, f \in BOOLEAN :
          LET mode == loc.mode
              cv == loc.city
              lav == loc.lat
              lov == loc.lon
              key == resolve_api_key(k, OPENWEATHER_API_KEY)
              msg == validate(mode, cv, lav, lov, key)
          IN  /\ use_demo' = d
              /\ api_key_input' = k
              /\ loc_mode' = mode
              /\ city' = cv
              /\ lat' = lav
              /\ lon' = lov
              /\ auto_elev' = a
              /\ force_mountain' = f
              /\ api_key' = key
              /\ result' = None
              /\ evalCount' = 0
              /\ failed' = <<>>
              /\ elev' = None
              /\ elev_resp' = None
              /\ IF d
                 THEN /\ weather_json' = Some(demo_weather)
                      /\ elevation' = Some(3200)
                      /\ is_mountainous' = TRUE
                      /\ calls' = <<>>
                      /\ errors' = <<>>
                      /\ pc' = "analyze"
                 ELSE /\ weather_json' = None
                      /\ elevation' = None
                      /\ is_mountainous' = FALSE
                      /\ IF msg # ""
                         THEN /\ errors' = <<msg>>
                              /\ calls' = <<>>
                              /\ pc' = "stopped"
                         ELSE /\ errors' = <<>>
                              /\ calls' = IF mode = CityMode
                                          THEN <<"fetch_weather_by_city">>
                                          ELSE <<"fetch_weather_by_coords">>
                              /\ pc' = "weather"
    /\ UNCHANGED OPENWEATHER_API_KEY

\* the payloads the weather provider answers with in the handler's runs
HandlerPayloads ==
    {demo_weather,
     [weather |-> None, main |-> None, wind |-> None, rain |-> None, snow |-> None],
     [weather |-> Some(<<[main |-> Some(Str_Thunderstorm), description |-> Some(Str_thunderstorm)]>>),
      main |-> Some([temp |-> Some(-500)]),
      wind |-> Some([speed |-> Some(1000)]),
      rain |-> Some([h1 |-> Some(50)]),
      snow |-> None]}

\* the weather call ends: lines 262-265 (city) or 281-296 up to the elevation
\* call (coordinates), or the except clauses of lines 324-327
WeatherResponds ==
    /\ pc = "weather"
    /\ \E resp \in WeatherResponses(HandlerPayloads) :
          LET out == IF loc_mode = CityMode
                     THEN fetch_weather_by_city(resp)
                     ELSE fetch_weather_by_coords(resp)
          IN  IF out.raised # ""
              THEN /\ errors' = Append(errors, except_message(out.raised))
                   /\ failed' = Append(failed, calls[Len(calls)])
                   /\ pc' = "done"
                   /\ UNCHANGED <<weather_json, elevation, is_mountainous, calls>>
              ELSE /\ weather_json' = out.value
                   /\ elevation' = None
                   /\ UNCHANGED <<errors, failed>>
                   /\ IF loc_mode = CityMode
                      THEN /\ is_mountainous' = (force_mountain \/ FALSE)
                           /\ pc' = "analyze"
                           /\ UNCHANGED calls
                      ELSE IF auto_elev
                      THEN /\ is_mountainous' = FALSE
                           /\ calls' = Append(calls, "fetch_elevation")
                           /\ pc' = "elevation"
                      ELSE /\ is_mountainous' = override(FALSE, force_mountain)
                           /\ pc' = "analyze"
                           /\ UNCHANGED calls
    /\ UNCHANGED <<OPENWEATHER_API_KEY, uiVars, api_key, elev_resp, elev, result, evalCount>>

\* the elevation call ends: lines 286-296
ElevationResponds ==
    /\ pc = "elevation"
    /\ \E resp \in ElevationResponses :
          LET out == fetch_elevation(resp)
          IN  /\ elev_resp' = Some(resp)
              /\ IF out.raised # ""
                 THEN /\ errors' = Append(errors, except_message(out.raised))
                      /\ failed' = Append(failed, calls[Len(calls)])
                      /\ pc' = "done"
                      /\ UNCHANGED <<elev, elevation, is_mountainous>>
                 ELSE /\ elev' = out.value
                      /\ elevation' = out.value
                      /\ is_mountainous' =
                             override(mountainous_by_elevation(out.value), force_mountain)
                      /\ pc' = "analyze"
                      /\ UNCHANGED <<errors, failed>>
    /\ UNCHANGED <<OPENWEATHER_API_KEY, uiVars, api_key, weather_json, result, calls, evalCount>>

\* line 299, and the display of lines 301-323
Analyze ==
    /\ pc = "analyze"
    /\ result' = Some(analyze_risk(weather_json[1], is_mountainous))
    /\ evalCount' = evalCount + 1
    /\ pc' = "done"
    /\ UNCHANGED <<OPENWEATHER_API_KEY, uiVars, api_key, weather_json, elev_resp, elev,
                   elevation, is_mountainous, calls, errors, failed>>

Init ==
    /\ OPENWEATHER_API_KEY \in {Strip(e) : e \in EnvValues}
    /\ use_demo = FALSE
    /\ api_key_input = OPENWEATHER_API_KEY
    /\ loc_mode = CityMode
    /\ city = Some(<<"S", "k", "a", "r", "d", "u">>)
    /\ lat = None
    /\ lon = None
    /\ auto_elev = TRUE
    /\ force_mountain = FALSE
    /\ pc = "idle"
    /\ api_key = <<>>
    /\ weather_json = None
    /\ elev_resp = None
    /\ elev = None
    /\ elevation = None
    /\ is_mountainous = FALSE
    /\ result = None
    /\ calls = <<>>
    /\ errors = <<>>
    /\ evalCount = 0
    /\ failed = <<>>

Next == Click \/ WeatherResponds \/ ElevationResponds \/ Analyze

Spec == Init /\ [][Next]_vars

-----------------------------------------------------------------------------
(* analyze_risk alone: every payload, both values of the flag *)

EvalInit ==
    /\ OPENWEATHER_API_KEY = <<>>
    /\ use_demo = FALSE
    /\ api_key_input = <<>>
    /\ loc_mode = CityMode
    /\ city = Some(<<"S", "k", "a", "r", "d", "u">>)
    /\ lat = None
    /\ lon = None
    /\ auto_elev = TRUE
    /\ force_mountain = FALSE
    /\ pc = "analyze"
    /\ api_key = <<>>
    /\ weather_json \in {Some(p) : p \in Payloads}
    /\ elev_resp = None
    /\ elev = None
    /\ elevation = None
    /\ is_mountainous \in BOOLEAN
    /\ result = None
    /\ calls = <<>>
    /\ errors = <<>>
    /\ evalCount = 0
    /\ failed = <<>>

EvalNext == Analyze

EvalSpec == EvalInit /\ [][EvalNext]_vars

-----------------------------------------------------------------------------
(* Properties of analyze_risk, checked under EvalSpec *)

\* the observation and the assessment of the state
obs == weather_json[1]

res == result[1]

Evaluated == result # None

\* an optional key of an optional section of the payload, read directly
Field(sec, key) == IF obs[sec] = None THEN None ELSE obs[sec][1][key]

NoHazard ==
    ~(has_rain(obs) \/ has_snow(obs) \/ is_windy(obs) \/ is_cold(obs) \/ is_stormy(obs))

\* weight * (2 rain + 3 snow + 2 wind + 1.5 cold + 3 storm), in half points
ClosedScore ==
    (IF is_mountainous THEN 2 ELSE 1)
        * ((IF has_rain(obs) THEN 4 ELSE 0) + (IF has_snow(obs) THEN 6 ELSE 0)
            + (IF is_windy(obs) THEN 4 ELSE 0) + (IF is_cold(obs) THEN 3 ELSE 0)
            + (IF is_stormy(obs) THEN 6 ELSE 0))

Kinds(rs) == [i \in 1..Len(rs) |-> rs[i].kind]

HasKind(k) == \E i \in 1..Len(res.reasons) : res.reasons[i].kind = k

\* C1: the level is one of "Low", "Medium", "High" and "High" + suffix; the
\* suffixed form is returned exactly when is_mountainous is false and the score
\* is at least 6, and it starts with "High".
C1_LevelDomain ==
    Evaluated =>
        /\ res.level \in {<<"Low">>, <<"Medium">>, <<"High">>, <<"High", Suffix>>}
        /\ (res.level = <<"High", Suffix>>) <=> (~is_mountainous /\ ClosedScore >= 12)
        /\ Len(res.level) = 2 => Head(res.level) = "High"

C1_Witness ==
    Evaluated /\ ~is_mountainous /\ ClosedScore >= 12 /\ res.level = <<"High", Suffix>>

\* C2, as stated: reasons is never empty, and when no hazard flag fires a
\* "clear conditions" reason is present.
C2_Original ==
    Evaluated => (res.reasons # <<>> /\ (NoHazard => HasKind("clear")))

\* C2, amended: reasons is empty exactly when is_mountainous is true, no hazard
\* flag fires and the lowercased category is not "clear"; when no hazard flag
\* fires the "clear conditions" reason is present iff the category is "clear".
C2_ReasonsEmptiness ==
    Evaluated =>
        /\ (res.reasons = <<>>) <=>
               (is_mountainous /\ NoHazard /\ res.raw.weather_main # s_clear)
        /\ NoHazard => (HasKind("clear") <=> res.raw.weather_main = s_clear)

C2_Witness ==
    /\ Evaluated
    /\ is_mountainous
    /\ NoHazard
    /\ res.raw.weather_main = Lower(Str_Clouds)
    /\ res.reasons = <<>>

\* C4: score = weight * (2 rain + 3 snow + 2 wind + 1.5 cold + 3 storm) with
\* weight 2.0 if mountainous else 1.0; the base level is High iff score >= 6,
\* Medium iff 2.5 <= score < 6 and Low iff score < 2.5.
C4_ScoreAndLevel ==
    Evaluated =>
        /\ risk_score(obs, is_mountainous) = ClosedScore
        /\ (Head(res.level) = "High") <=> (ClosedScore >= 12)
        /\ (Head(res.level) = "Medium") <=> (5 <= ClosedScore /\ ClosedScore < 12)
        /\ (Head(res.level) = "Low") <=> (ClosedScore < 5)

\* a cold-only observation on a mountain: 1.5 * 2.0 = 3 gives Medium
C4_Witness ==
    /\ Evaluated
    /\ is_mountainous
    /\ is_cold(obs)
    /\ ~(has_rain(obs) \/ has_snow(obs) \/ is_windy(obs) \/ is_stormy(obs))
    /\ res.level = <<"Medium">>

\* C8, as stated: every numeric field of the snapshot (temperature, wind
\* speed, rain 1h, snow 1h) holds a defaulted value, never a missing one.
C8_Original ==
    Evaluated =>
        /\ res.raw.temp_c # None
        /\ res.raw.wind_speed \in Int
        /\ res.raw.rain_1h \in Int
        /\ res.raw.snow_1h \in Int

\* C8, amended: for every payload an assessment is returned; wind speed, rain
\* 1h and snow 1h of the snapshot are the payload's value, or 0 when the section
\* or the key is absent; the temperature is the payload's value, or None (no
\* default) when the section or the key is absent.
C8_SnapshotDefaults ==
    (pc = "done" /\ weather_json # None /\ failed = <<>>) =>
        /\ Evaluated
        /\ res.raw.wind_speed = (IF Field("wind", "speed") = None THEN 0 ELSE Field("wind", "speed")[1])
        /\ res.raw.rain_1h = (IF Field("rain", "h1") = None THEN 0 ELSE Field("rain", "h1")[1])
        /\ res.raw.snow_1h = (IF Field("snow", "h1") = None THEN 0 ELSE Field("snow", "h1")[1])
        /\ res.raw.temp_c = Field("main", "temp")

C8_Witness ==
    /\ Evaluated
    /\ obs.weather = None /\ obs.main = None /\ obs.wind = None
    /\ obs.rain = None /\ obs.snow = None
    /\ res.raw.temp_c = None
    /\ res.raw.wind_speed = 0 /\ res.raw.rain_1h = 0 /\ res.raw.snow_1h = 0

FlagOrder == <<"not_mountainous", "rain", "snow", "wind", "cold", "storm", "clear">>

Fired(k) ==
    CASE k = "not_mountainous" -> ~is_mountainous
      [] k = "rain" -> has_rain(obs)
      [] k = "snow" -> has_snow(obs)
      [] k = "wind" -> is_windy(obs)
      [] k = "cold" -> is_cold(obs)
      [] k = "storm" -> is_stormy(obs)
      [] k = "clear" -> res.raw.weather_main = s_clear
                          /\ ~(has_rain(obs) \/ has_snow(obs) \/ is_windy(obs) \/ is_cold(obs))

\* C9: reasons holds one reason per fired flag in the order rain, snow, wind,
\* cold, storm, clear; the non-mountainous note is at position 0 when
\* is_mountainous is false and absent when it is true.
C9_ReasonOrder ==
    Evaluated =>
        /\ Kinds(res.reasons) = SelectSeq(FlagOrder, Fired)
        /\ ~is_mountainous => res.reasons[1].kind = "not_mountainous"
        /\ is_mountainous => ~HasKind("not_mountainous")

C9_Witness ==
    /\ Evaluated
    /\ ~is_mountainous
    /\ Kinds(res.reasons) = <<"not_mountainous", "rain", "snow", "wind", "cold", "storm">>

OnlyFlag(k) ==
    /\ has_rain(obs) <=> k = "rain"
    /\ has_snow(obs) <=> k = "snow"
    /\ is_windy(obs) <=> k = "wind"
    /\ is_cold(obs) <=> k = "cold"
    /\ is_stormy(obs) <=> k = "storm"

\* C10: when is_mountainous is true the level is "Low" iff no hazard flag
\* fires; when it is false, rain alone, wind alone or cold alone still gives
\* "Low".
C10_MountainLow ==
    Evaluated =>
        /\ is_mountainous => ((res.level = <<"Low">>) <=> NoHazard)
        /\ (~is_mountainous /\ (OnlyFlag("rain") \/ OnlyFlag("wind") \/ OnlyFlag("cold")))
               => res.level = <<"Low">>

C10_Witness ==
    Evaluated /\ is_mountainous /\ OnlyFlag("cold") /\ res.level # <<"Low">>

-----------------------------------------------------------------------------
(* Properties of the handler, checked under Spec *)

WeatherCalls == {"fetch_weather_by_city", "fetch_weather_by_coords"}

\* the evaluator is about to be invoked or has been
ReachedEvaluator == pc = "analyze" \/ Evaluated

\* the elevation provider failed or answered without an elevation
LookupEmpty ==
    /\ elev_resp # None
    /\ \/ ~elev_resp[1].ok
       \/ elev_resp[1].data.results = None
       \/ elev_resp[1].data.results[1] = <<>>
       \/ elev_resp[1].data.results[1][1].elevation = None

\* the elevation as C3 words it: unknown in place-name mode, when auto-detect
\* is off and when the lookup returned nothing
ElevationAsStated ==
    IF loc_mode = CityMode \/ ~auto_elev \/ elev_resp = None \/ LookupEmpty
    THEN None
    ELSE elev_resp[1].data.results[1][1].elevation

CredentialMissing == Strip(api_key_input) = <<>> /\ OPENWEATHER_API_KEY = <<>>

LocationInvalid ==
    IF loc_mode = CityMode
    THEN city[1] = <<>>
    ELSE \/ lat[1] = <<>>
         \/ lon[1] = <<>>
         \/ ~ParsesAsFloat(lat[1])
         \/ ~ParsesAsFloat(lon[1])

\* C5: in a non-demo action with the credential missing, the place name
\* missing, or a coordinate missing or non-numeric, the action is stopped with
\* an error message, no network call is made and the evaluator is not invoked.
C5_ValidationAborts ==
    (pc # "idle" /\ ~use_demo /\ (CredentialMissing \/ LocationInvalid)) =>
        /\ pc = "stopped"
        /\ errors # <<>>
        /\ calls = <<>>
        /\ evalCount = 0
        /\ result = None

C5_Witness ==
    /\ pc = "stopped"
    /\ loc_mode = CoordMode
    /\ CredentialMissing
    /\ ~LocationInvalid
    /\ errors = <<"No OpenWeatherMap API key available.">>
    /\ calls = <<>>

\* C6: the evaluator is invoked at most once and only with a weather payload
\* obtained (a successful fetch, or demo data); a failed weather call ends the
\* action with an error, without retry, elevation call or evaluation; at most
\* two network calls are made, the elevation call after the successful weather
\* call.
C6_CallDiscipline ==
    /\ evalCount <= 1
    /\ ReachedEvaluator =>
           /\ weather_json # None
           /\ failed = <<>>
           /\ use_demo \/ (calls # <<>> /\ calls[1] \in WeatherCalls)
    /\ failed # <<>> =>
           /\ pc = "done"
           /\ errors # <<>>
           /\ calls = failed
           /\ Len(calls) = 1
           /\ evalCount = 0
           /\ result = None
    /\ Len(calls) <= 2
    /\ Cardinality({i \in 1..Len(calls) : calls[i] \in WeatherCalls}) <= 1
    /\ \A i \in 1..Len(calls) :
           calls[i] = "fetch_elevation" =>
               (i = 2 /\ calls[1] = "fetch_weather_by_coords" /\ weather_json # None)
    /\ use_demo => calls = <<>>

C6_Witness ==
    /\ pc = "done"
    /\ failed = <<"fetch_weather_by_coords">>
    /\ auto_elev
    /\ errors = <<"External API HTTP error">>
    /\ calls = <<"fetch_weather_by_coords">>
    /\ evalCount = 0

\* C7: a failure or an empty answer of the elevation provider does not abort
\* the action and shows no error: fetch_elevation returns None, the elevation
\* is unknown, the evaluator is invoked with the flag false, or true when the
\* override is set.
C7_ElevationDegrades ==
    LookupEmpty =>
        /\ pc \in {"analyze", "done"}
        /\ errors = <<>>
        /\ failed = <<>>
        /\ elev = None
        /\ elevation = None
        /\ is_mountainous = force_mountain
        /\ pc = "done" => (evalCount = 1 /\ Evaluated)

C7_Witness ==
    /\ elev_resp # None
    /\ ~elev_resp[1].ok
    /\ pc = "done"
    /\ Evaluated
    /\ errors = <<>>
    /\ ~is_mountainous

====
